---------------------------- MODULE Spec2Model ----------------------------
(***************************************************************************)
(* Model of webpush-fcm-relay (src/webpush-fcm-relay.go): an HTTP handler  *)
(* validates a WebPush request, builds an FCM message and sends it on the  *)
(* buffered channel messageChan; configMaxWorkers worker goroutines range  *)
(* over the channel and call client.Send for every message they receive.   *)
(*                                                                         *)
(* Strings are sequences of one-character strings, byte slices are         *)
(* sequences of 0..255.  A 32/64-bit value that does not fit a TLC integer *)
(* is kept as its big-endian sequence of digits and divided by long        *)
(* division.                                                               *)
(***************************************************************************)
EXTENDS Integers, Sequences, FiniteSets, TLC

(***************************************************************************)
(* Bounds of the model.                                                    *)
(***************************************************************************)
\* number of concurrent requests of the concurrency specification
NumRequests == 3
\* largest -max-queue-size the model configures
MaxQueueSize == 2
\* largest -max-workers the model configures
MaxWorkers == 2
\* longest body of the encoding specification
MaxBodyLen == 5
\* longest body of the pairs of the encoding specification of two requests
MaxPairLen == 4

(***************************************************************************)
(* Library functions of Go used by the handler.                            *)
(***************************************************************************)
\* first position >= i of character c in s, 0 when there is none
IndexOf(s, c, i) ==
  IF \E j \in i..Len(s) : s[j] = c
  THEN CHOOSE j \in i..Len(s) : s[j] = c /\ \A k \in i..(j - 1) : s[k] # c
  ELSE 0

RECURSIVE Split(_, _)
\* strings.Split(s, c) for a one-character separator: n separators give n+1 parts
Split(s, c) ==
  LET i == IndexOf(s, c, 1) IN
  IF i = 0 THEN <<s>>
  ELSE <<SubSeq(s, 1, i - 1)>> \o Split(SubSeq(s, i + 1, Len(s)), c)

\* strings.FieldsFunc(s, f) with f(c) = (c == sep): the maximal runs without sep
FieldsFunc(s, sep) ==
  SelectSeq(Split(s, sep), LAMBDA field : field # <<>>)

RECURSIVE Join(_, _)
\* strings.Join(parts, sep)
Join(parts, sep) ==
  IF parts = <<>> THEN <<>>
  ELSE IF Len(parts) = 1 THEN parts[1]
  ELSE parts[1] \o <<sep>> \o Join(Tail(parts), sep)

\* the alphabet of base64.RawURLEncoding
encodeURL ==
  << "A", "B", "C", "D", "E", "F", "G", "H", "I", "J", "K", "L", "M",
     "N", "O", "P", "Q", "R", "S", "T", "U", "V", "W", "X", "Y", "Z",
     "a", "b", "c", "d", "e", "f", "g", "h", "i", "j", "k", "l", "m",
     "n", "o", "p", "q", "r", "s", "t", "u", "v", "w", "x", "y", "z",
     "0", "1", "2", "3", "4", "5", "6", "7", "8", "9", "-", "_" >>

\* the 6-bit value of a base64url character (-1 when it is not in the alphabet)
DecodeMap(c) == IndexOf(encodeURL, c, 1) - 1

RECURSIVE DecodeQuanta(_)
\* the bytes of a sequence of 6-bit values: 4 values give 3 bytes, a final group
\* of 2 gives 1 byte and of 3 gives 2 bytes (trailing bits are not checked)
DecodeQuanta(v) ==
  IF Len(v) = 0 THEN <<>>
  ELSE IF Len(v) = 2 THEN
    << (v[1] * 4 + v[2] \div 16) >>
  ELSE IF Len(v) = 3 THEN
    << (v[1] * 4 + v[2] \div 16), ((v[2] % 16) * 16 + v[3] \div 4) >>
  ELSE
    << (v[1] * 4 + v[2] \div 16), ((v[2] % 16) * 16 + v[3] \div 4),
       ((v[3] % 4) * 64 + v[4]) >> \o DecodeQuanta(SubSeq(v, 5, Len(v)))

\* base64.RawURLEncoding.DecodeString: an error for a character outside the
\* alphabet (padding included) or a single left-over character
DecodeString(s) ==
  IF \E i \in 1..Len(s) : DecodeMap(s[i]) < 0 THEN [err |-> TRUE, bytes |-> <<>>]
  ELSE IF Len(s) % 4 = 1 THEN [err |-> TRUE, bytes |-> <<>>]
  ELSE [err |-> FALSE, bytes |-> DecodeQuanta([i \in 1..Len(s) |-> DecodeMap(s[i])])]

\* the decimal digits strconv.Atoi accepts
DecimalDigits == << "0", "1", "2", "3", "4", "5", "6", "7", "8", "9" >>

RECURSIVE DecimalValue(_, _)
\* n*10 + digit over the characters of s, starting from n
DecimalValue(s, n) ==
  IF s = <<>> THEN n
  ELSE DecimalValue(Tail(s), n * 10 + (IndexOf(DecimalDigits, Head(s), 1) - 1))

\* strconv.Atoi for inputs of fewer than 10 characters: an optional sign, then
\* at least one digit and only digits
Atoi(s) ==
  LET signed == s # <<>> /\ s[1] \in {"-", "+"}
      digits == IF signed THEN Tail(s) ELSE s
  IN IF digits = <<>> \/ \E i \in 1..Len(digits) : IndexOf(DecimalDigits, digits[i], 1) = 0
     THEN [err |-> TRUE, n |-> 0]
     ELSE [err |-> FALSE,
           n |-> IF signed /\ s[1] = "-" THEN 0 - DecimalValue(digits, 0)
                 ELSE DecimalValue(digits, 0)]

\* the conversion uint(ttl) of a 64-bit int, as four 16-bit limbs, most
\* significant first: a negative ttl wraps to 2^64 + ttl
uint(n) ==
  IF n >= 0 THEN << 0, 0, n \div 65536, n % 65536 >>
  ELSE LET m == (0 - n) - 1
       IN << 65535, 65535, 65535 - (m \div 65536), 65535 - (m % 65536) >>

(***************************************************************************)
(* encode85                                                                *)
(***************************************************************************)
z85digits ==
  << "0", "1", "2", "3", "4", "5", "6", "7", "8", "9",
     "a", "b", "c", "d", "e", "f", "g", "h", "i", "j", "k", "l", "m",
     "n", "o", "p", "q", "r", "s", "t", "u", "v", "w", "x", "y", "z",
     "A", "B", "C", "D", "E", "F", "G", "H", "I", "J", "K", "L", "M",
     "N", "O", "P", "Q", "R", "S", "T", "U", "V", "W", "X", "Y", "Z",
     ".", "-", ":", "+", "=", "^", "!", "/", "*", "?", "&", "<", ">",
     "(", ")", "[", "]", "{", "}", "@", "%", "$", "#" >>

RECURSIVE DivMod85(_, _)
\* value / 85 and value % 85 of the big-endian base-256 number bs, with the
\* carry of the digits already divided
DivMod85(bs, carry) ==
  IF bs = <<>> THEN [q |-> <<>>, r |-> carry]
  ELSE LET cur == carry * 256 + Head(bs)
           rest == DivMod85(Tail(bs), cur % 85)
       IN [q |-> <<cur \div 85>> \o rest.q, r |-> rest.r]

RECURSIVE EncodeValueLeastFirst(_, _)
\* a variant of EncodeValue that writes the digits from the front of dest, the
\* least significant first
EncodeValueLeastFirst(value, n) ==
  IF n = 0 THEN <<>>
  ELSE LET d == DivMod85(value, 0)
       IN << z85digits[d.r + 1] >> \o EncodeValueLeastFirst(d.q, n - 1)

RECURSIVE EncodeValue(_, _)
\* the loop `dest[n-1-i] = z85digits[value%85]; value /= 85` for i < n: the n
\* low base-85 digits of value, most significant first
EncodeValue(value, n) ==
  IF n = 0 THEN <<>>
  ELSE LET d == DivMod85(value, 0)
       IN EncodeValue(d.q, n - 1) \o << z85digits[d.r + 1] >>

RECURSIVE EncodeBlocksLowBytes(_, _)
\* a variant of EncodeBlocks that reads the last two bytes of a block only
\* (binary.BigEndian.Uint16 of src[2:])
EncodeBlocksLowBytes(src, numBlocks) ==
  IF numBlocks = 0 THEN <<>>
  ELSE EncodeValue(SubSeq(src, 3, 4), 5)
         \o EncodeBlocksLowBytes(SubSeq(src, 5, Len(src)), numBlocks - 1)

RECURSIVE EncodeBlocks(_, _)
\* the block loop: every 4 bytes, read big-endian, give 5 characters
EncodeBlocks(src, numBlocks) ==
  IF numBlocks = 0 THEN <<>>
  ELSE EncodeValue(SubSeq(src, 1, 4), 5)
         \o EncodeBlocks(SubSeq(src, 5, Len(src)), numBlocks - 1)

\* a variant of encode85 that gives the remaining bytes as many characters as
\* there are bytes
encode85ShortSuffix(bytes) ==
  LET numBlocks == Len(bytes) \div 4
      suffixLength == Len(bytes) % 4
      src == SubSeq(bytes, 4 * numBlocks + 1, Len(bytes))
  IN EncodeBlocks(bytes, numBlocks)
       \o (IF suffixLength # 0 THEN EncodeValue(src, suffixLength) ELSE <<>>)

encode85(bytes) ==
  LET numBlocks == Len(bytes) \div 4
      suffixLength == Len(bytes) % 4
      src == SubSeq(bytes, 4 * numBlocks + 1, Len(bytes))
  IN EncodeBlocks(bytes, numBlocks)
       \o (IF suffixLength # 0 THEN EncodeValue(src, suffixLength + 1) ELSE <<>>)

(***************************************************************************)
(* Header parsing                                                          *)
(***************************************************************************)
\* http.Header.Get: the value of the header, "" when it is absent
Get(header, name) == IF name \in DOMAIN header THEN header[name] ELSE <<>>

\* the loop of parseKeyValues over the entries already split on '=':
\* m[parts[0]] = parts[1] in order, later entries overwriting earlier ones; an
\* entry without '=' has a one-element parts and parts[1] is out of range
storeKeyValues(parts) ==
  LET keys == { parts[i][1] : i \in 1..Len(parts) }
      last(k) == CHOOSE i \in 1..Len(parts) :
                   /\ parts[i][1] = k
                   /\ \A j \in 1..Len(parts) : parts[j][1] = k => j <= i
  IN IF \E i \in 1..Len(parts) : Len(parts[i]) < 2
     THEN [panic |-> TRUE, m |-> <<>>]
     ELSE [panic |-> FALSE, m |-> [k \in keys |-> parts[last(k)][2]]]

\* the entries of a header value, each split on '='
splitEntries(entries) == [i \in 1..Len(entries) |-> Split(entries[i], "=")]

\* parseKeyValues: the fields between ';', each split on '=' and stored
parseKeyValues(values) == storeKeyValues(splitEntries(FieldsFunc(values, ";")))

\* the text of encodedValue after the base64 decoding
encodeDecoded(decoded) ==
  IF decoded.err THEN [panic |-> FALSE, err |-> TRUE, value |-> <<>>]
  ELSE [panic |-> FALSE, err |-> FALSE, value |-> encode85(decoded.bytes)]

\* encodedValue after parseKeyValues: the value stored under key, decoded and
\* encoded, or an error when there is none
lookupEncoded(keyValues, key) ==
  IF keyValues.panic THEN [panic |-> TRUE, err |-> FALSE, value |-> <<>>]
  ELSE IF key \notin DOMAIN keyValues.m
    THEN [panic |-> FALSE, err |-> TRUE, value |-> <<>>]
  ELSE encodeDecoded(DecodeString(keyValues.m[key]))

\* encodedValue: the base-85 text of the base64url value stored under key in
\* the header name, or an error
encodedValue(header, name, key) ==
  lookupEncoded(parseKeyValues(Get(header, name)), key)

(***************************************************************************)
(* The handler up to the channel send                                      *)
(***************************************************************************)
\* the outcome of http.Error(writer, text, code); return
httpError(code) == [kind |-> "error", code |-> code, message |-> <<>>]

\* the outcome of an index out of range in parseKeyValues: net/http recovers
\* the panic of the handler and closes the connection, no response is written
panicked == [kind |-> "panic", code |-> 0, message |-> <<>>]

\* if len(components) > 4 { message.Data["x"] = strings.Join(components[4:], "/") }
withExtra(components, data) ==
  IF Len(components) > 4
  THEN ("x" :> Join(SubSeq(components, 5, Len(components)), "/")) @@ data
  ELSE data

\* a variant of supportedEncoding that accepts every Content-Encoding
supportedEncodingAny(contentEncoding) == TRUE

\* switch request.Header.Get("Content-Encoding"): case "aesgcm", else default
supportedEncoding(contentEncoding) ==
  contentEncoding = <<"a", "e", "s", "g", "c", "m">>

\* a variant of timeToLive that ignores the error of Atoi, which returns 0
\* with it
timeToLiveIgnoresError(seconds) ==
  IF seconds # <<>> THEN << uint(Atoi(seconds).n) >> ELSE <<>>

\* the TTL header: message.TimeToLive is set when the header is not empty and
\* Atoi succeeds (<< >> is the nil pointer, << v >> a pointer to v)
timeToLive(seconds) ==
  IF seconds # <<>> /\ ~Atoi(seconds).err THEN << uint(Atoi(seconds).n) >> ELSE <<>>

\* a variant of priority whose case lists "low" alone
priorityLowOnly(urgency) ==
  IF urgency = <<"l", "o", "w">> THEN "normal" ELSE "high"

\* switch request.Header.Get("Urgency"): "very-low", "low" give normal
priority(urgency) ==
  IF urgency \in { <<"v", "e", "r", "y", "-", "l", "o", "w">>, <<"l", "o", "w">> }
  THEN "normal" ELSE "high"

\* the message of lines 99-154
newMessage(request, components, publicKey, salt) ==
  [ To |-> components[4],
    Data |-> ("s" :> salt.value) @@ ("k" :> publicKey.value)
               @@ withExtra(components, ("p" :> encode85(request.body))),
    TimeToLive |-> timeToLive(Get(request.header, "TTL")),
    CollapseKey |-> Get(request.header, "Topic"),
    Priority |-> priority(Get(request.header, "Urgency")) ]

\* lines 115-136: the Content-Encoding switch and the two encodedValue calls;
\* lines 138-154 cannot fail
headerChecks(request, components, publicKey, salt) ==
  IF ~supportedEncoding(Get(request.header, "Content-Encoding")) THEN httpError(415)
  ELSE IF publicKey.panic THEN panicked
  ELSE IF publicKey.err THEN httpError(400)
  ELSE IF salt.panic THEN panicked
  ELSE IF salt.err THEN httpError(400)
  ELSE [ kind |-> "send", code |-> 0,
         message |-> << newMessage(request, components, publicKey, salt) >> ]

\* lines 76-93: the checks of the path
pathChecks(request, components) ==
  IF Len(components) < 4 THEN httpError(400)
  ELSE IF components[3] # <<"f", "c", "m">> THEN httpError(400)
  ELSE IF components[4] = <<>> THEN httpError(400)
  ELSE headerChecks(request, components,
                    encodedValue(request.header, "Crypto-Key", <<"d", "h">>),
                    encodedValue(request.header, "Encryption", <<"s", "a", "l", "t">>))

\* lines 74-154 of handler: the checks in their order, and the message built
\* when all pass.  kind is "error" (a response with code was written and the
\* handler returned), "panic" or "send" (the handler is at
\* `messageChan <- message`).
handlerResult(request) == pathChecks(request, Split(request.path, "/"))

(***************************************************************************)
(* Requests the model submits                                              *)
(***************************************************************************)
NewRequest(path, contentEncoding, cryptoKey, encryption, ttl, topic, urgency, body) ==
  [ path |-> path,
    header |-> ("Content-Encoding" :> contentEncoding) @@ ("Crypto-Key" :> cryptoKey)
                 @@ ("Encryption" :> encryption) @@ ("TTL" :> ttl)
                 @@ ("Topic" :> topic) @@ ("Urgency" :> urgency),
    body |-> body ]

pathToken == <<"/", "r", "e", "l", "a", "y", "-", "t", "o", "/", "f", "c", "m", "/", "A", "B", "C", "1", "2", "3">>
pathTokenSlash == <<"/", "r", "e", "l", "a", "y", "-", "t", "o", "/", "f", "c", "m", "/", "A", "B", "C", "1", "2", "3", "/">>
pathTokenExtra == <<"/", "r", "e", "l", "a", "y", "-", "t", "o", "/", "f", "c", "m", "/", "A", "B", "C", "1", "2", "3", "/", "f", "o", "o", "/", "b", "a", "r">>

Paths ==
  { pathToken, pathTokenSlash, pathTokenExtra,
    <<"/", "r", "e", "l", "a", "y", "-", "t", "o", "/", "f", "c", "m", "/", "A", "B", "C", "1", "2", "3", "/", "f", "o", "o">>,
    <<"/", "r", "e", "l", "a", "y", "-", "t", "o", "/", "f", "c", "m", "/", "A", "B", "C", "1", "2", "3", "/", "/">>,
    <<"/", "r", "e", "l", "a", "y", "-", "t", "o", "/", "o", "t", "h", "e", "r", "/", "A", "B", "C">>,
    <<"/", "r", "e", "l", "a", "y", "-", "t", "o", "/", "o", "t", "h", "e", "r", "/">>,
    <<"/", "r", "e", "l", "a", "y", "-", "t", "o", "/", "f", "c", "m", "/">>,
    <<"/", "r", "e", "l", "a", "y", "-", "t", "o", "/", "f", "c", "m">>,
    <<"/", "r", "e", "l", "a", "y", "-", "t", "o", "/">> }

ContentEncodings ==
  { <<"a", "e", "s", "g", "c", "m">>,
    <<"g", "z", "i", "p">>,
    <<>> }

CryptoKeys ==
  { <<"d", "h", "=", "A", "A", "E", "C">>,
    <<"d", "h", "=", "A", "A", "E", "C", ";", "p", "2", "5", "6", "e", "c", "d", "s", "a", "=", "B", "A">>,
    <<"p", "2", "5", "6", "e", "c", "d", "s", "a", "=", "B", "A">>,
    <<>>,
    <<"d", "h">>,
    <<"d", "h", "=", "A", "A", "E", "C", ";", "j", "u", "n", "k">>,
    <<"d", "h", "=", "A">>,
    <<"d", "h", "=", "A", "A", "*", "C">>,
    <<"d", "h", "=">>,
    <<"d", "h", "=", "A", "A", "E", "C", ";", "d", "h", "=", "A">>,
    <<"d", "h", "=", "A", "A", "=", "E", "C">>,
    <<";", "d", "h", "=", "_", "w", ";", ";">> }

Encryptions ==
  { <<"s", "a", "l", "t", "=", "_", "w">>,
    <<"s", "a", "l", "t", "=", "_", "w", ";", "r", "s", "=", "A", "A">>,
    <<"r", "s", "=", "A", "A">>,
    <<>>,
    <<"s", "a", "l", "t">>,
    <<"r", "s", ";", "s", "a", "l", "t", "=", "_", "w">>,
    <<"s", "a", "l", "t", "=", "_">>,
    <<"s", "a", "l", "t", "=">> }

TTLs ==
  { <<>>,
    <<"6", "0">>,
    <<"-", "1">>,
    <<"+", "5">>,
    <<"a", "b", "c">>,
    <<"6", "x">> }

Topics ==
  { <<>>,
    <<"t", "o", "p", "i", "c", "1">> }

Urgencies ==
  { <<>>,
    <<"v", "e", "r", "y", "-", "l", "o", "w">>,
    <<"l", "o", "w">>,
    <<"n", "o", "r", "m", "a", "l">>,
    <<"h", "i", "g", "h">> }

Bodies == { <<>>, <<255>>, <<0, 0, 0, 0>>, <<1, 2, 3, 4, 5, 6>> }

\* a request that passes every check
goodRequest ==
  NewRequest(pathToken,
             <<"a", "e", "s", "g", "c", "m">>,
             <<"d", "h", "=", "A", "A", "E", "C">>,
             <<"s", "a", "l", "t", "=", "_", "w">>, <<>>, <<>>, <<>>, <<255>>)

\* the requests of the handler specification: a path, a Content-Encoding, a
\* Crypto-Key and an Encryption that each pass or fail, in every combination;
\* every path, Crypto-Key and Encryption on the good request; every TTL,
\* Topic and Urgency, and every body, on the good request and on the request
\* with a path suffix
HandlerRequests ==
  { NewRequest(p, ce, ck, en, <<>>, <<>>, <<>>, <<255>>) :
      p \in { pathToken, pathTokenSlash,
              <<"/", "r", "e", "l", "a", "y", "-", "t", "o", "/", "o", "t", "h", "e", "r", "/", "A", "B", "C">>,
              <<"/", "r", "e", "l", "a", "y", "-", "t", "o", "/", "f", "c", "m", "/">>,
              <<"/", "r", "e", "l", "a", "y", "-", "t", "o", "/", "f", "c", "m">> },
      ce \in ContentEncodings,
      ck \in { <<"d", "h", "=", "A", "A", "E", "C">>, <<"p", "2", "5", "6", "e", "c", "d", "s", "a", "=", "B", "A">>,
               <<"d", "h">>, <<"d", "h", "=", "A">> },
      en \in { <<"s", "a", "l", "t", "=", "_", "w">>, <<"r", "s", "=", "A", "A">>,
               <<"s", "a", "l", "t">>, <<"s", "a", "l", "t", "=", "_">> } }
  \cup { [goodRequest EXCEPT !.path = p] : p \in Paths }
  \cup { [goodRequest EXCEPT !.header["Crypto-Key"] = ck] : ck \in CryptoKeys }
  \cup { [goodRequest EXCEPT !.header["Encryption"] = en] : en \in Encryptions }
  \cup { NewRequest(p, goodRequest.header["Content-Encoding"],
                    goodRequest.header["Crypto-Key"], goodRequest.header["Encryption"],
                    ttl, topic, urgency, <<255>>) :
           p \in { pathToken, pathTokenExtra },
           ttl \in TTLs, topic \in Topics, urgency \in Urgencies }
  \cup { [goodRequest EXCEPT !.body = body] : body \in Bodies }

\* the byte values of the bodies of the encoding specification: the ends of
\* the byte range and the values around the base
EncodeBytes == {0, 1, 84, 85, 255}

\* bodies of two and three blocks, with and without remaining bytes
LongBodies ==
  { <<255, 255, 255, 255, 0, 0, 0, 0>>,
    <<0, 0, 0, 1, 255, 255, 255, 255>>,
    <<1, 2, 3, 4, 5, 6, 7, 8, 9>>,
    <<134, 79, 210, 111, 181, 89, 247, 91, 72, 101>>,
    <<72, 101, 108, 108, 111, 87, 111, 114, 108, 100, 33>>,
    <<0, 0, 0, 0, 255, 255, 255, 255, 128, 64, 32, 16>> }

\* the bodies of the encoding specification: every sequence of EncodeBytes of
\* up to MaxBodyLen bytes, and the long bodies
EncodeInputs ==
  UNION { [1..n -> EncodeBytes] : n \in 0..MaxBodyLen } \cup LongBodies

\* the bodies of the encoding specification of two requests: every sequence
\* of the bytes 0 and 255 of up to MaxPairLen bytes
PairInputs == UNION { [1..n -> {0, 255}] : n \in 0..MaxPairLen }

\* the requests of the concurrency specification: an accepted one, one rejected
\* with 415 and one whose Crypto-Key has an entry without '='
ConcurrentRequests ==
  { goodRequest,
    [goodRequest EXCEPT !.header["Content-Encoding"] = <<"g", "z", "i", "p">>],
    [goodRequest EXCEPT !.header["Crypto-Key"] = <<"d", "h">>] }

(***************************************************************************)
(* The program                                                             *)
(***************************************************************************)
VARIABLES
  configMaxQueueSize,  \* the flag -max-queue-size
  configMaxWorkers,    \* the flag -max-workers
  started,             \* main has made the channel, started the workers and listens
  chanCap,             \* cap(messageChan)
  messageChan,         \* the buffer of the channel: requests whose message is queued
  wstate,              \* per worker: "idle" (receiving from the channel) or "sending"
  wmsg,                \* per worker: the request whose message it is sending, or 0
  request,             \* per request: path, headers and body
  result,              \* per request: what lines 74-154 of its handler give for it;
                       \* they read the request alone, so it is fixed with the request
  hpc,                 \* per request: where its handler is
  responses,           \* per request: the status codes written to its ResponseWriter
  message,             \* per request: << the message built by its handler >>, or << >>
  enqueued,            \* per request: how many times its message entered the channel
  received,            \* per request: how many times a worker received its message
  sendCalls,           \* per request: how many times client.Send was called with its message
  sendResult,          \* per request: "none", or "ok"/"error" as client.Send returned
  history,             \* whether the two orders below are recorded (fixed at the start)
  enqLog,              \* the requests in the order their channel sends completed
  deqLog               \* the requests in the order workers received their messages

vars ==
  << configMaxQueueSize, configMaxWorkers, started, chanCap, messageChan, wstate,
     wmsg, request, result, hpc, responses, message, enqueued, received, sendCalls,
     sendResult, history, enqLog, deqLog >>

config == << configMaxQueueSize, configMaxWorkers >>
channel == << chanCap, messageChan >>
workers == << wstate, wmsg >>
delivery == << received, sendCalls, sendResult, deqLog >>
enqueues == << enqueued, enqLog >>
requests == << request, result >>

Requests == DOMAIN request
Workers == DOMAIN wstate

\* the state before main runs, for the requests of one of the assignments
\* of requests to handlers in submitted
InitWith(submitted) ==
  /\ configMaxQueueSize \in 0..MaxQueueSize
  /\ configMaxWorkers \in 1..MaxWorkers
  /\ started = FALSE
  /\ chanCap = 0
  /\ messageChan = <<>>
  /\ wstate = <<>>
  /\ wmsg = <<>>
  /\ request \in submitted
  /\ result = [r \in DOMAIN request |-> handlerResult(request[r])]
  /\ hpc = [r \in DOMAIN request |-> "new"]
  /\ responses = [r \in DOMAIN request |-> <<>>]
  /\ message = [r \in DOMAIN request |-> <<>>]
  /\ enqueued = [r \in DOMAIN request |-> 0]
  /\ received = [r \in DOMAIN request |-> 0]
  /\ sendCalls = [r \in DOMAIN request |-> 0]
  /\ sendResult = [r \in DOMAIN request |-> "none"]
  /\ history \in BOOLEAN
  /\ enqLog = <<>>
  /\ deqLog = <<>>

\* NumRequests concurrent requests, each one of ConcurrentRequests
Init == InitWith([1..NumRequests -> ConcurrentRequests]) /\ ~history

\* one request of HandlerRequests, concurrent with one good request
InitHandler ==
  InitWith({ (1 :> q) @@ (2 :> goodRequest) : q \in HandlerRequests }) /\ ~history

\* one request that passes every check, with a body of EncodeInputs, a channel
\* of capacity 1 and one worker
InitEncode ==
  /\ InitWith({ (1 :> [goodRequest EXCEPT !.body = b]) : b \in EncodeInputs })
  /\ ~history
  /\ configMaxQueueSize = 1
  /\ configMaxWorkers = 1

\* two requests that pass every check, with bodies of PairInputs, a channel of
\* capacity 1 and one worker
InitEncodePair ==
  /\ InitWith({ (1 :> [goodRequest EXCEPT !.body = b1])
                  @@ (2 :> [goodRequest EXCEPT !.body = b2]) :
                b1 \in PairInputs, b2 \in PairInputs })
  /\ ~history
  /\ configMaxQueueSize = 1
  /\ configMaxWorkers = 1

\* the concurrent requests again, with the orders of enqueue and dequeue recorded
InitOrder == InitWith([1..NumRequests -> ConcurrentRequests]) /\ history

\* main: make the channel with the configured capacity, start the configured
\* number of workers, serve
main ==
  /\ ~started
  /\ started' = TRUE
  /\ chanCap' = configMaxQueueSize
  /\ messageChan' = <<>>
  /\ wstate' = [w \in 1..configMaxWorkers |-> "idle"]
  /\ wmsg' = [w \in 1..configMaxWorkers |-> 0]
  /\ UNCHANGED << history, config, requests, hpc, responses, message, enqueues, delivery >>

\* a variant of handler that writes the 201 before the channel send
handlerRespondsFirst(r) ==
  /\ started
  /\ hpc[r] = "new"
  /\ \E res \in { result[r] } :
       /\ hpc' = [hpc EXCEPT ![r] = CASE res.kind = "error" -> "done"
                                      [] res.kind = "panic" -> "panicked"
                                      [] res.kind = "send" -> "send"]
       /\ responses' = [responses EXCEPT ![r] =
                          IF res.kind = "error" THEN Append(@, res.code)
                          ELSE IF res.kind = "send" THEN Append(@, 201) ELSE @]
       /\ message' = [message EXCEPT ![r] = res.message]
  /\ UNCHANGED << history, config, started, channel, workers, requests, enqueues, delivery >>

\* handler, from its entry to the channel send or to its return: the checks
\* of lines 74-154 give result[r]
handler(r) ==
  /\ started
  /\ hpc[r] = "new"
  /\ \E res \in { result[r] } :
       /\ hpc' = [hpc EXCEPT ![r] = CASE res.kind = "error" -> "done"
                                      [] res.kind = "panic" -> "panicked"
                                      [] res.kind = "send" -> "send"]
       /\ responses' = [responses EXCEPT ![r] =
                          IF res.kind = "error" THEN Append(@, res.code) ELSE @]
       /\ message' = [message EXCEPT ![r] = res.message]
  /\ UNCHANGED << history, config, started, channel, workers, requests, enqueues, delivery >>

\* the channel send of request r has completed
enqueue(r) ==
  /\ enqueued' = [enqueued EXCEPT ![r] = @ + 1]
  /\ enqLog' = IF history THEN Append(enqLog, r) ELSE enqLog

\* a variant of chansend that makes room in a full buffer by dropping its head
chansendDropOldest(r) ==
  /\ hpc[r] = "send"
  /\ chanCap >= 1
  /\ messageChan' = IF Len(messageChan) < chanCap THEN Append(messageChan, r)
                    ELSE Append(Tail(messageChan), r)
  /\ enqueue(r)
  /\ hpc' = [hpc EXCEPT ![r] = "respond"]
  /\ UNCHANGED << history, config, started, chanCap, workers, requests, responses, message,
                  delivery >>

\* a variant of chansend that appends whatever the length of the buffer
chansendUnbounded(r) ==
  /\ hpc[r] = "send"
  /\ messageChan' = Append(messageChan, r)
  /\ enqueue(r)
  /\ hpc' = [hpc EXCEPT ![r] = "respond"]
  /\ UNCHANGED << history, config, started, chanCap, workers, requests, responses, message,
                  delivery >>

\* a variant of chansend that does not wait: with a full buffer the handler
\* goes on without its message (select with a default case)
chansendNonBlocking(r) ==
  /\ hpc[r] = "send"
  /\ IF Len(messageChan) < chanCap
     THEN /\ messageChan' = Append(messageChan, r)
          /\ enqueue(r)
     ELSE UNCHANGED << messageChan, enqueues >>
  /\ hpc' = [hpc EXCEPT ![r] = "respond"]
  /\ UNCHANGED << history, config, started, chanCap, workers, requests, responses, message,
                  delivery >>

\* messageChan <- message, with room in the buffer
chansend(r) ==
  /\ hpc[r] = "send"
  /\ Len(messageChan) < chanCap
  /\ messageChan' = Append(messageChan, r)
  /\ enqueue(r)
  /\ hpc' = [hpc EXCEPT ![r] = "respond"]
  /\ UNCHANGED << history, config, started, chanCap, workers, requests, responses, message,
                  delivery >>

\* what a worker does with the message of request r it received: the loop body
\* starts and client.Send(msg) is called
workerTake(w, r) ==
  /\ wstate' = [wstate EXCEPT ![w] = "sending"]
  /\ wmsg' = [wmsg EXCEPT ![w] = r]
  /\ received' = [received EXCEPT ![r] = @ + 1]
  /\ sendCalls' = [sendCalls EXCEPT ![r] = @ + 1]
  /\ deqLog' = IF history THEN Append(deqLog, r) ELSE deqLog
  /\ UNCHANGED sendResult

\* messageChan <- message, with an empty buffer and a worker waiting in the
\* receive: the message is handed to that worker directly
chansendDirect(r, w) ==
  /\ hpc[r] = "send"
  /\ messageChan = <<>>
  /\ wstate[w] = "idle"
  /\ workerTake(w, r)
  /\ enqueue(r)
  /\ hpc' = [hpc EXCEPT ![r] = "respond"]
  /\ UNCHANGED << history, config, started, channel, requests, responses, message >>

\* writer.WriteHeader(201) and the return of the handler
WriteHeader(r) ==
  /\ hpc[r] = "respond"
  /\ responses' = [responses EXCEPT ![r] = Append(@, 201)]
  /\ hpc' = [hpc EXCEPT ![r] = "done"]
  /\ UNCHANGED << history, config, started, channel, workers, requests, message, enqueues,
                  delivery >>

\* a variant of chanrecv that reads the head of the buffer and leaves it there
chanrecvKeepsHead(w) ==
  /\ wstate[w] = "idle"
  /\ messageChan # <<>>
  /\ messageChan' = messageChan
  /\ workerTake(w, Head(messageChan))
  /\ UNCHANGED << history, config, started, chanCap, requests, hpc, responses, message, enqueues >>

\* a variant of chanrecv that receives the newest message of the buffer
chanrecvTakesLast(w) ==
  /\ wstate[w] = "idle"
  /\ messageChan # <<>>
  /\ messageChan' = SubSeq(messageChan, 1, Len(messageChan) - 1)
  /\ workerTake(w, messageChan[Len(messageChan)])
  /\ UNCHANGED << history, config, started, chanCap, requests, hpc, responses, message, enqueues >>

\* a variant of chanrecv in which a receive from an empty buffer returns as a
\* receive from a closed channel does, and the worker leaves its loop
chanrecvEmptyEndsLoop(w) ==
  /\ wstate[w] = "idle"
  /\ IF messageChan = <<>>
     THEN /\ wstate' = [wstate EXCEPT ![w] = "stopped"]
          /\ UNCHANGED << messageChan, wmsg, delivery >>
     ELSE /\ messageChan' = Tail(messageChan)
          /\ workerTake(w, Head(messageChan))
  /\ UNCHANGED << history, config, started, chanCap, requests, hpc, responses, message, enqueues >>

\* worker: `for msg := range messageChan` receives the head of the buffer
chanrecv(w) ==
  /\ wstate[w] = "idle"
  /\ messageChan # <<>>
  /\ messageChan' = Tail(messageChan)
  /\ workerTake(w, Head(messageChan))
  /\ UNCHANGED << history, config, started, chanCap, requests, hpc, responses, message, enqueues >>

\* a variant of clientSend in which the worker leaves its loop on an error
clientSendStopsOnError(w, err) ==
  /\ wstate[w] = "sending"
  /\ sendResult' = [sendResult EXCEPT ![wmsg[w]] = IF err THEN "error" ELSE "ok"]
  /\ wstate' = [wstate EXCEPT ![w] = IF err THEN "stopped" ELSE "idle"]
  /\ wmsg' = [wmsg EXCEPT ![w] = 0]
  /\ UNCHANGED << history, config, started, channel, requests, hpc, responses, message,
                  enqueues, received, sendCalls, deqLog >>

\* a variant of clientSend that puts the message back on the channel when
\* client.Send returned an error and the buffer has room
clientSendRequeues(w, err) ==
  /\ wstate[w] = "sending"
  /\ sendResult' = [sendResult EXCEPT ![wmsg[w]] = IF err THEN "error" ELSE "ok"]
  /\ wstate' = [wstate EXCEPT ![w] = "idle"]
  /\ wmsg' = [wmsg EXCEPT ![w] = 0]
  /\ messageChan' = IF err /\ Len(messageChan) < chanCap
                    THEN Append(messageChan, wmsg[w]) ELSE messageChan
  /\ UNCHANGED << history, config, started, chanCap, requests, hpc, responses, message,
                  enqueues, received, sendCalls, deqLog >>

\* a variant of clientSend in which the worker returns after its first message
\* (an `if` in the place of the `for`)
clientSendEndsWorker(w, err) ==
  /\ wstate[w] = "sending"
  /\ sendResult' = [sendResult EXCEPT ![wmsg[w]] = IF err THEN "error" ELSE "ok"]
  /\ wstate' = [wstate EXCEPT ![w] = "stopped"]
  /\ wmsg' = [wmsg EXCEPT ![w] = 0]
  /\ UNCHANGED << history, config, started, channel, requests, hpc, responses, message,
                  enqueues, received, sendCalls, deqLog >>

\* worker: client.Send returns, with an error (logged) or without; the loop
\* goes back to the receive
clientSend(w, err) ==
  /\ wstate[w] = "sending"
  /\ sendResult' = [sendResult EXCEPT ![wmsg[w]] = IF err THEN "error" ELSE "ok"]
  /\ wstate' = [wstate EXCEPT ![w] = "idle"]
  /\ wmsg' = [wmsg EXCEPT ![w] = 0]
  /\ UNCHANGED << history, config, started, channel, requests, hpc, responses, message,
                  enqueues, received, sendCalls, deqLog >>

worker(w) ==
  \/ chanrecv(w)
  \/ \E err \in BOOLEAN : clientSend(w, err)

Next ==
  \/ main
  \/ \E r \in Requests : handler(r)
  \/ \E r \in Requests : chansend(r)
  \/ \E r \in Requests : \E w \in Workers : chansendDirect(r, w)
  \/ \E r \in Requests : WriteHeader(r)
  \/ \E w \in Workers : worker(w)

\* the concurrency specification: NumRequests concurrent requests
Spec == Init /\ [][Next]_vars

\* the handler specification: one request drawn from HandlerRequests, and a
\* good request beside it
SpecHandler == InitHandler /\ [][Next]_vars

\* the encoding specification: the handler encodes the body of its request
SpecEncode == InitEncode /\ [][Next]_vars

\* the encoding specification of two requests
SpecEncodePair == InitEncodePair /\ [][Next]_vars

\* the concurrency specification with the orders of enqueue and dequeue recorded
SpecOrder == InitOrder /\ [][Next]_vars

\* the goroutines are scheduled fairly and client.Send returns
Fairness ==
  /\ WF_vars(main)
  /\ \A r \in 1..NumRequests : WF_vars(handler(r))
  /\ \A r \in 1..NumRequests :
       WF_vars(chansend(r) \/ \E w \in Workers : chansendDirect(r, w))
  /\ \A r \in 1..NumRequests : WF_vars(WriteHeader(r))
  /\ \A w \in 1..MaxWorkers : WF_vars(w \in Workers /\ worker(w))

FairSpec == Spec /\ Fairness

(***************************************************************************)
(* Properties                                                              *)
(***************************************************************************)
\* the number of positions of the channel buffer that hold request r
InChan(r) == Cardinality({ i \in 1..Len(messageChan) : messageChan[i] = r })

\* the workers that are sending the message of request r
Sending(r) == { w \in Workers : wstate[w] = "sending" /\ wmsg[w] = r }

\* no worker has received a message yet
NoReceive == \A r \in Requests : received[r] = 0

\* C1: every message that entered the channel is passed to client.Send at most
\* once in total and is received by at most one worker: for every request,
\* the copies in the buffer and the Send calls made add up to its one enqueue.
C1_AtMostOnce ==
  \A r \in Requests :
    /\ enqueued[r] <= 1
    /\ sendCalls[r] <= 1
    /\ received[r] <= 1
    /\ Cardinality(Sending(r)) <= 1
    /\ InChan(r) + sendCalls[r] = enqueued[r]

\* C1 witness: two workers run, and a message has been received and sent by
\* one of them while a worker sends a different message
C1_Witness ==
  /\ Cardinality(Workers) >= 2
  /\ \E r1, r2 \in Requests :
       /\ r1 # r2
       /\ sendResult[r1] # "none" /\ sendCalls[r1] = 1
       /\ Sending(r2) # {}

\* C3: while no worker has received anything, every completed channel send is
\* in the buffer, a handler at the channel send can complete it exactly when
\* the buffer holds fewer than capacity messages, a handler at the channel
\* send of a full buffer leaves it only by a worker receiving its message, and
\* the buffer changes only by an append at the tail below capacity or by a
\* worker receiving its head: nothing is dropped or overwritten.
C3_Backpressure ==
  /\ [](NoReceive =>
          /\ Len(messageChan) <= chanCap
          /\ \A r \in Requests : InChan(r) = enqueued[r]
          /\ \A r \in Requests :
               hpc[r] = "send" => (ENABLED chansend(r) <=> Len(messageChan) < chanCap))
  /\ [][\A r \in Requests :
          (hpc[r] = "send" /\ Len(messageChan) = chanCap /\ hpc'[r] # "send")
            => received'[r] = received[r] + 1]_vars
  /\ [][\/ messageChan' = messageChan
        \/ /\ Len(messageChan) < chanCap
           /\ \E r \in Requests : messageChan' = Append(messageChan, r)
        \/ /\ messageChan # <<>>
           /\ messageChan' = Tail(messageChan)
           /\ \E w \in Workers : wstate[w] = "idle" /\ wmsg'[w] = Head(messageChan)]_vars

\* C3 witness: no worker has received anything, the buffer holds capacity >= 1
\* messages and one more handler is at the channel send
C3_Witness ==
  /\ NoReceive
  /\ chanCap >= 1
  /\ Len(messageChan) = chanCap
  /\ \E r \in Requests : hpc[r] = "send" /\ ~ENABLED chansend(r)

C6_CreatedOnlyAfterEnqueue ==
  \A r \in Requests :
    /\ (\E i \in 1..Len(responses[r]) : responses[r][i] = 201) => enqueued[r] = 1
    /\ hpc[r] = "send" => responses[r] = <<>> /\ enqueued[r] = 0

\* C6 witness: one request has been answered 201 while another handler is
\* suspended on the full buffer with no response written
C6_Witness ==
  \E r1, r2 \in Requests :
    /\ responses[r1] = <<201>> /\ enqueued[r1] = 1
    /\ hpc[r2] = "send" /\ Len(messageChan) = chanCap /\ responses[r2] = <<>>

\* C7 as stated: client.Send is called for a message only after its handler
\* has written the 201 response.
C7_ResponseBeforeSend ==
  \A r \in Requests : sendCalls[r] > 0 => responses[r] = <<201>>

\* C7 amended: client.Send is called for a message only after its handler has
\* completed the channel send, and the handler writes 201 only after the
\* channel send, whether or not a worker has called Send by then.
C7_SendOnlyAfterEnqueue ==
  \A r \in Requests :
    /\ sendCalls[r] > 0 => enqueued[r] = 1 /\ hpc[r] \in {"respond", "done"}
    /\ responses[r] = <<201>> => enqueued[r] = 1 /\ hpc[r] = "done"
    /\ hpc[r] = "respond" => responses[r] = <<>> /\ enqueued[r] = 1

\* C7 witness: a worker has called Send, and Send has returned, for a message
\* whose handler has not written its response yet
C7_Witness ==
  \E r \in Requests :
    /\ sendCalls[r] = 1 /\ sendResult[r] # "none"
    /\ hpc[r] = "respond" /\ responses[r] = <<>>


(***************************************************************************)
(* The checks of a request, as the specification lists them                *)
(***************************************************************************)
\* entries, the parts of a Crypto-Key or Encryption header between ';', have
\* one with no '=' character
HasEntryWithoutEquals(entries) ==
  \E i \in 1..Len(entries) : \A j \in 1..Len(entries[i]) : entries[i][j] # "="

\* value has only key=value entries, one of them under key, and the value
\* under key is base64url text
HasDecodableEntry(value, key) ==
  /\ \E entries \in { FieldsFunc(value, ";") } : ~HasEntryWithoutEquals(entries)
  /\ \E keyValues \in { parseKeyValues(value).m } :
       /\ key \in DOMAIN keyValues
       /\ ~DecodeString(keyValues[key]).err

\* the path has a token after /relay-to/fcm/
PathAccepted(path) ==
  \E segments \in { Split(path, "/") } :
    /\ Len(segments) >= 4
    /\ segments[3] = <<"f", "c", "m">>
    /\ segments[4] # <<>>

\* the Content-Encoding is exactly aesgcm
EncodingAccepted(req) ==
  req.header["Content-Encoding"] = <<"a", "e", "s", "g", "c", "m">>

\* the status the first failing check gives a request, 201 when none fails
ExpectedStatus(req) ==
  IF ~PathAccepted(req.path) THEN 400
  ELSE IF ~EncodingAccepted(req) THEN 415
  ELSE IF ~HasDecodableEntry(req.header["Crypto-Key"], <<"d", "h">>) THEN 400
  ELSE IF ~HasDecodableEntry(req.header["Encryption"], <<"s", "a", "l", "t">>) THEN 400
  ELSE 201

\* the request passes validation
PassesValidation(req) == ExpectedStatus(req) = 201

C8_StatusOfFirstFailingCheck ==
  \A r \in Requests :
    hpc[r] \in {"done", "panicked"} =>
      responses[r] = << ExpectedStatus(request[r]) >>

\* C9: a request that reaches the parsing of Crypto-Key and Encryption with an
\* entry without '=' in one of them ends with the response 400 and without a
\* message in the channel, and in no other way.
C9_EntryWithoutEqualsRejected ==
  \A r \in Requests :
    ( /\ hpc[r] # "new"
      /\ PathAccepted(request[r].path)
      /\ EncodingAccepted(request[r])
      /\ \/ HasEntryWithoutEquals(FieldsFunc(request[r].header["Crypto-Key"], ";"))
         \/ HasEntryWithoutEquals(FieldsFunc(request[r].header["Encryption"], ";")) )
    => /\ hpc[r] = "done"
       /\ responses[r] = <<400>>
       /\ enqueued[r] = 0

\* the text after the token of a path, segments[4:] joined with '/'
ExtraOf(path) ==
  Join(SubSeq(Split(path, "/"), 5, Len(Split(path, "/"))), "/")

\* C10: the message of an accepted request has the data field x exactly when
\* the path has more than 4 segments and the text after the token is not
\* empty, x is that text, and the request ends with 201 and its message
\* enqueued once.
C10_ExtraWhenNonEmpty ==
  \A r \in Requests :
    message[r] # <<>> =>
      /\ "x" \in DOMAIN message[r][1].Data
           <=> (Len(Split(request[r].path, "/")) > 4 /\ ExtraOf(request[r].path) # <<>>)
      /\ "x" \in DOMAIN message[r][1].Data
           => message[r][1].Data["x"] = ExtraOf(request[r].path)
      /\ hpc[r] = "done" => responses[r] = <<201>> /\ enqueued[r] = 1

\* C11: a message for which client.Send returned an error is discarded: it is
\* in no buffer position and in no worker's hands, it was sent once and is
\* never sent or enqueued again; the step in which client.Send returns the
\* error leaves the buffer as it was and puts the worker back in the receive,
\* from which it may take later messages.
C11_ErrorDiscardsMessage ==
  /\ [](\A r \in Requests :
          sendResult[r] = "error" =>
            /\ sendCalls[r] = 1
            /\ enqueued[r] = 1
            /\ InChan(r) = 0
            /\ Sending(r) = {})
  /\ [][\A r \in Requests :
          sendResult[r] = "error" =>
            /\ sendResult'[r] = "error"
            /\ sendCalls'[r] = sendCalls[r]
            /\ enqueued'[r] = enqueued[r]]_vars
  /\ [][\A w \in Workers :
          (wstate[w] = "sending" /\ sendResult'[wmsg[w]] = "error") =>
            /\ wstate'[w] = "idle"
            /\ messageChan' = messageChan
            /\ (messageChan # <<>> => ENABLED chanrecv(w))']_vars

\* C11 witness: the only worker got an error for one message and is now
\* sending a later one, while the first is in no buffer position
C11_Witness ==
  /\ Cardinality(Workers) = 1
  /\ \E r1, r2 \in Requests :
       /\ r1 # r2
       /\ sendResult[r1] = "error"
       /\ sendCalls[r1] = 1
       /\ InChan(r1) = 0
       /\ wstate[1] = "sending"
       /\ wmsg[1] = r2

\* the position of request r in the recorded order log, 0 when it is not there
PositionIn(log, r) ==
  IF \E i \in 1..Len(log) : log[i] = r
  THEN CHOOSE i \in 1..Len(log) : log[i] = r
  ELSE 0

\* C12: for any two messages of which the first completed its enqueue before
\* the second, the second has been received by a worker only if the first
\* was received before it; so the order of dequeue is the order of enqueue,
\* whatever the number of workers
C12_DequeueInEnqueueOrder ==
  /\ \A i, j \in 1..Len(enqLog) :
       (i < j /\ PositionIn(deqLog, enqLog[j]) > 0) =>
         /\ PositionIn(deqLog, enqLog[i]) > 0
         /\ PositionIn(deqLog, enqLog[i]) < PositionIn(deqLog, enqLog[j])
  /\ Len(deqLog) <= Len(enqLog)
  /\ deqLog = SubSeq(enqLog, 1, Len(deqLog))

\* C12 witness: two workers; the message enqueued and dequeued first is still
\* being sent when client.Send has returned for the one dequeued after it, and
\* a third message waits in the buffer
C12_Witness ==
  /\ Cardinality(Workers) >= 2
  /\ Len(deqLog) = 2
  /\ Len(enqLog) = 3
  /\ Sending(deqLog[1]) # {}
  /\ sendResult[deqLog[2]] # "none"
  /\ messageChan = << enqLog[3] >>

\* s is an optional sign followed by one or more decimal digits
IsDecimalInteger(s) ==
  \E digits \in { IF s # <<>> /\ s[1] \in {"+", "-"} THEN Tail(s) ELSE s } :
    /\ digits # <<>>
    /\ \A i \in 1..Len(digits) :
         digits[i] \in {"0", "1", "2", "3", "4", "5", "6", "7", "8", "9"}

C14_PriorityFromUrgency ==
  \A r \in Requests :
    message[r] # <<>> =>
      /\ message[r][1].Priority \in {"normal", "high"}
      /\ message[r][1].Priority = "normal"
           <=> \/ request[r].header["Urgency"] = <<"v", "e", "r", "y", "-", "l", "o", "w">>
               \/ request[r].header["Urgency"] = <<"l", "o", "w">>

\* C14 witness: a message with Urgency very-low was enqueued with the priority
\* normal, and the message of the request without Urgency beside it with high
C14_Witness ==
  /\ request[1].header["Urgency"] = <<"v", "e", "r", "y", "-", "l", "o", "w">>
  /\ enqueued[1] = 1
  /\ message[1][1].Priority = "normal"
  /\ request[2].header["Urgency"] = <<>>
  /\ enqueued[2] = 1
  /\ message[2][1].Priority = "high"

\* the characters of the alphabet of encode85
Z85Alphabet == { z85digits[i] : i \in 1..Len(z85digits) }

\* the length of the encoding of n bytes
EncodedLength(n) == 5 * (n \div 4) + (IF n % 4 > 0 THEN (n % 4) + 1 ELSE 0)

\* C15: the text encode85 gives for the body of a request, the data field p
\* of its message, has 5 characters for every 4 bytes and one more than the
\* number of remaining bytes for the rest, every character is of the
\* alphabet of 85, and the empty body gives the empty text.
C15_EncodedLengthAndAlphabet ==
  \A r \in Requests :
    message[r] # <<>> =>
      /\ Len(message[r][1].Data["p"]) = EncodedLength(Len(request[r].body))
      /\ \A i \in 1..Len(message[r][1].Data["p"]) :
           message[r][1].Data["p"][i] \in Z85Alphabet
      /\ request[r].body = <<>> => message[r][1].Data["p"] = <<>>
      /\ Cardinality(Z85Alphabet) = 85

\* C15 witness: a body of five bytes, one block and one remaining byte, was
\* encoded in seven characters and its message enqueued
C15_Witness ==
  /\ Len(request[1].body) = 5
  /\ enqueued[1] = 1
  /\ Len(message[1][1].Data["p"]) = 7

\* the digit a character of the alphabet stands for
DigitOf(c) == (CHOOSE i \in 1..Len(z85digits) : z85digits[i] = c) - 1

RECURSIVE PositionalValue(_, _)
\* the number whose digits in the base are ds, most significant first
PositionalValue(ds, base) ==
  IF ds = <<>> THEN 0
  ELSE PositionalValue(SubSeq(ds, 1, Len(ds) - 1), base) * base + ds[Len(ds)]

\* the five characters t are the base-85 digits, most significant first, of
\* the 32-bit number whose big-endian bytes are b; the number is compared in
\* two halves of 16 bits, with 85^4 = 796 * 65536 + 33969
BlockMatches(b, t) ==
  \E low \in { DigitOf(t[1]) * 33969
               + PositionalValue([i \in 1..4 |-> DigitOf(t[i + 1])], 85) } :
    /\ Len(b) = 4 /\ Len(t) = 5
    /\ DigitOf(t[1]) * 796 + (low \div 65536) = b[1] * 256 + b[2]
    /\ low % 65536 = b[3] * 256 + b[4]

\* the characters t, one more than the bytes b, are the base-85 digits, most
\* significant first, of the number whose big-endian bytes are b
RemainderMatches(b, t) ==
  /\ Len(b) \in 1..3
  /\ Len(t) = Len(b) + 1
  /\ PositionalValue([i \in 1..Len(t) |-> DigitOf(t[i])], 85) = PositionalValue(b, 256)

\* C16: the text encode85 gives for a body is, block of 4 bytes by block, the
\* 5 base-85 digits of the block read as a big-endian 32-bit number, and for
\* 1 to 3 remaining bytes the digits, one more than the bytes, of their
\* big-endian number, most significant digit first; four zero bytes give
\* 00000 and the byte 255 gives 30.
C16_ReferenceEncoding ==
  \A r \in Requests :
    message[r] # <<>> =>
      \E body \in { request[r].body } : \E p \in { message[r][1].Data["p"] } :
        /\ Len(p) = EncodedLength(Len(body))
        /\ \A k \in 1..(Len(body) \div 4) :
             BlockMatches(SubSeq(body, 4 * k - 3, 4 * k), SubSeq(p, 5 * k - 4, 5 * k))
        /\ Len(body) % 4 # 0 =>
             RemainderMatches(SubSeq(body, 4 * (Len(body) \div 4) + 1, Len(body)),
                              SubSeq(p, 5 * (Len(body) \div 4) + 1, Len(p)))
        /\ body = <<0, 0, 0, 0>> => p = <<"0", "0", "0", "0", "0">>
        /\ body = <<255>> => p = <<"3", "0">>

\* C16 witness: the body of five bytes 255 was encoded as the digits of
\* 2^32 - 1 followed by 30, and its message enqueued
C16_Witness ==
  /\ request[1].body = <<255, 255, 255, 255, 255>>
  /\ enqueued[1] = 1
  /\ message[1][1].Data["p"] = <<"%", "n", "S", "c", "0", "3", "0">>

\* C20: two requests whose bodies are the same bytes have the same encoded
\* body, and two requests whose bodies differ, in length or in a byte, have
\* different encoded bodies.
C20_EncodeInjective ==
  \A r1, r2 \in Requests :
    (message[r1] # <<>> /\ message[r2] # <<>>) =>
      (message[r1][1].Data["p"] = message[r2][1].Data["p"]
         <=> request[r1].body = request[r2].body)

\* C20 witness: two bodies of the same length that differ in their first byte
\* only were both encoded, to different texts, and enqueued
C20_Witness ==
  /\ request[1].body = <<0, 0, 0, 0>>
  /\ request[2].body = <<255, 0, 0, 0>>
  /\ enqueued[1] = 1
  /\ enqueued[2] = 1
  /\ message[1][1].Data["p"] # message[2][1].Data["p"]


\* the integer a base-10 integer s denotes: the value of its digits, negated
\* after a minus sign
HeaderInteger(s) ==
  LET digits == IF s[1] \in {"+", "-"} THEN Tail(s) ELSE s
      v == PositionalValue([i \in 1..Len(digits) |-> DigitOf(digits[i])], 10)
  IN IF s[1] = "-" THEN 0 - v ELSE v

\* C17: whenever an enqueued message has a time-to-live, the TTL header of its
\* request is a base-10 integer that is not negative, and the time-to-live is
\* that number of seconds (a 64-bit number, written as four 16-bit limbs).
C17_TimeToLiveIsHeaderInteger ==
  \A r \in Requests :
    (enqueued[r] > 0 /\ message[r][1].TimeToLive # <<>>) =>
      /\ IsDecimalInteger(request[r].header["TTL"])
      /\ HeaderInteger(request[r].header["TTL"]) >= 0
      /\ \E v \in { HeaderInteger(request[r].header["TTL"]) } :
           message[r][1].TimeToLive[1] = << 0, 0, v \div 65536, v % 65536 >>


\* C18: a worker is idle or sending and never stopped; its state changes only
\* from idle to sending, with the receive of one message, and from sending
\* back to idle; and a worker that is idle while the buffer is empty leaves the
\* idle state only in a step in which a handler completes the enqueue of the
\* message the worker then sends.
C18_WorkerCycle ==
  /\ [](\A w \in Workers : wstate[w] \in {"idle", "sending"})
  /\ [][\A w \in Workers :
          wstate'[w] # wstate[w] =>
            \/ /\ wstate[w] = "idle"
               /\ wstate'[w] = "sending"
               /\ wmsg'[w] \in Requests
               /\ received'[wmsg'[w]] = received[wmsg'[w]] + 1
            \/ /\ wstate[w] = "sending"
               /\ wstate'[w] = "idle"]_vars
  /\ [][\A w \in Workers :
          (wstate[w] = "idle" /\ messageChan = <<>>) =>
            \/ wstate'[w] = "idle"
            \/ /\ wstate'[w] = "sending"
               /\ enqueued'[wmsg'[w]] = enqueued[wmsg'[w]] + 1]_vars

\* C18 witness: a worker has been through the cycle and is idle again on an
\* empty buffer with no handler at the channel send, while the other worker is
\* sending
C18_Witness ==
  /\ Cardinality(Workers) = 2
  /\ wstate[1] = "idle"
  /\ wstate[2] = "sending"
  /\ messageChan = <<>>
  /\ \A r \in Requests : hpc[r] # "send"
  /\ \E r \in Requests : sendResult[r] # "none" /\ wmsg[2] # r


=============================================================================
